---- MODULE Spec2Model ----
(***************************************************************************)
(* Model of the gak-cms-backend REST handlers: reflections (text entries   *)
(* with a DRAFT/PUBLISHED lifecycle) and albums (images kept in object     *)
(* storage), each guarded by authentication and ownership checks.          *)
(*                                                                         *)
(* Conventions:                                                            *)
(*   - an optional value (undefined / null in the source) is a sequence of *)
(*     length 0 (absent) or 1 (present);                                   *)
(*   - a text that the code inspects character by character (title, slug)  *)
(*     is a sequence of one-character strings;                             *)
(*   - crypto.randomUUID() is a counter that never repeats;                *)
(*   - a handler runs in one step from one await to the next: a request    *)
(*     that has to wait is kept in pending (tasks for the promises of an   *)
(*     album creation) and other requests run before its next step;        *)
(*   - the response a handler sends is kept in resp until it is delivered. *)
(***************************************************************************)
EXTENDS Integers, Sequences, FiniteSets, Bags, TLC

VARIABLES
    reflections,    \* table "reflections": id -> row
    reflectionTags, \* table "reflection_tags": set of <<reflectionId, tagId>>
    tags,           \* table "tags": set of tag ids
    albums,         \* table "albums": id -> row
    images,         \* table "images": id -> row
    storage,        \* bucket "albums" of the object storage: set of object paths
    nextId,         \* crypto.randomUUID(): next fresh id of each kind
    now,            \* the server clock (new Date())
    resp,           \* the response to the last handled request
    pending,        \* the requests suspended at an await: a bag of records
    tasks,          \* the promises of the album creations that have not settled
    slugCall        \* a call of createSlug: its argument and, once made, its result

vars == <<reflections, reflectionTags, tags, albums, images, storage, nextId, now, resp,
          pending, tasks, slugCall>>
\* what a handler that answers without awaiting leaves alone
stepVars == <<pending, tasks, slugCall>>
dbVars == <<reflections, reflectionTags, tags, albums, images>>

----------------------------------------------------------------------------
(* Bounds *)

MaxReflections == 2
MaxAlbums == 2
MaxImages == 3
MaxFiles == 2
MaxTime == 2
\* the requests that can be in progress at once
MaxPending == 2

----------------------------------------------------------------------------
(* Principals and fixed tables *)

Anon == "<anonymous>"
Users == {"u1", "none"}
Principals == Users \cup {Anon}
\* the one user who creates in the runs that follow the resources of one owner
Creators == {"u1"}

\* the rows of the tags table (no route writes it)
Tags == {"t1"}

NoId == 0
ReflIds == 1..MaxReflections
AlbumIds == 1..MaxAlbums
ImageIds == 1..MaxImages

----------------------------------------------------------------------------
(* Optional values *)

None == <<>>
Some(v) == <<v>>
IsSome(o) == o # <<>>

----------------------------------------------------------------------------
(* createSlug *)

UpperCase == {"H", "W"}
LowerCase == {"h", "w", "e", "l", "o", "r", "d", "i"}
Digits == {"1"}
WhiteSpace == {" "}

toLowerCase(c) ==
    CASE c = "H" -> "h"
      [] c = "W" -> "w"
      [] OTHER -> c

IsWordChar(c) == c \in UpperCase \cup LowerCase \cup Digits \cup {"_"}

RECURSIVE MapLower(_)
MapLower(s) ==
    IF s = <<>> THEN <<>> ELSE <<toLowerCase(Head(s))>> \o MapLower(Tail(s))

\* .replace(/\s+/g, "-"): every maximal run of white space becomes one hyphen
RECURSIVE SpacesToHyphen(_)
SpacesToHyphen(s) ==
    IF s = <<>> THEN <<>>
    ELSE IF Head(s) \in WhiteSpace
         THEN IF Len(s) > 1 /\ s[2] \in WhiteSpace
              THEN SpacesToHyphen(Tail(s))
              ELSE <<"-">> \o SpacesToHyphen(Tail(s))
         ELSE <<Head(s)>> \o SpacesToHyphen(Tail(s))

\* .replace(/[^\w\-]+/g, ""): drop everything that is neither a word character nor a hyphen
RECURSIVE RemoveNonWord(_)
RemoveNonWord(s) ==
    IF s = <<>> THEN <<>>
    ELSE IF IsWordChar(Head(s)) \/ Head(s) = "-"
         THEN <<Head(s)>> \o RemoveNonWord(Tail(s))
         ELSE RemoveNonWord(Tail(s))

\* .replace(/\-\-+/g, "-"): every run of two or more hyphens becomes one hyphen
RECURSIVE CollapseHyphens(_)
CollapseHyphens(s) ==
    IF s = <<>> THEN <<>>
    ELSE IF Head(s) = "-" /\ Len(s) > 1 /\ s[2] = "-"
         THEN CollapseHyphens(Tail(s))
         ELSE <<Head(s)>> \o CollapseHyphens(Tail(s))

\* .replace(/^-+/, "")
RECURSIVE TrimStart(_)
TrimStart(s) ==
    IF s # <<>> /\ Head(s) = "-" THEN TrimStart(Tail(s)) ELSE s

\* .replace(/-+$/, "")
RECURSIVE TrimEnd(_)
TrimEnd(s) ==
    IF s # <<>> /\ s[Len(s)] = "-" THEN TrimEnd(SubSeq(s, 1, Len(s) - 1)) ELSE s

\* a slug made without the step that collapses the runs of hyphens
slugKeepingRuns(text) ==
    TrimEnd(TrimStart(RemoveNonWord(SpacesToHyphen(MapLower(text)))))

createSlug(text) ==
    TrimEnd(TrimStart(CollapseHyphens(RemoveNonWord(SpacesToHyphen(MapLower(text))))))

----------------------------------------------------------------------------
(* Request bodies of the reflection routes *)

\* A date string is denoted by the instant it parses to; BadDate is a string
\* that is no ISO-8601 date.
BadDate == -1
SuppliedDate == 0

T_Hi == <<"H", "i">>
T_hi == <<"h", "i", "!">>
S_w == <<"w">>
C_x == <<"x">>
C_y == <<"y">>

EmptyBody ==
    [json |-> TRUE, title |-> None, content |-> None, slug |-> None, status |-> None,
     featuredImageId |-> None, tags |-> None, publishDate |-> None, authorId |-> None]

\* JSON.parse of the body throws
MalformedBody == [EmptyBody EXCEPT !.json = FALSE]
\* { title: "Hi", content: "x" }
MinimalBody == [EmptyBody EXCEPT !.title = Some(T_Hi), !.content = Some(C_x)]

\* the values a request may carry under each key: valid ones and invalid ones
TitleOpts == {None, Some(<<>>), Some(T_Hi)}
ContentOpts == {None, Some(<<>>), Some(C_x)}
SlugOpts == {None, Some(<<>>), Some(S_w)}
StatusOpts == {None, Some("DRAFT"), Some("PUBLISHED"), Some("OTHER")}
FeaturedOpts == {None, Some(1), Some(NoId)}
TagsOpts == {None, Some(<<>>), Some(<<"t1">>), Some(<<"tX">>), Some(<<"t1", "t1">>)}
DateOpts == {None, Some(SuppliedDate), Some(BadDate)}
\* authorId is no key of the schema: a client may send it all the same
OwnerOpts == {None} \cup {Some(u) : u \in Users}

\* the bodies that differ from b under at most one key
Vary(b) ==
    {b}
    \cup {[b EXCEPT !.title = v] : v \in TitleOpts}
    \cup {[b EXCEPT !.content = v] : v \in ContentOpts}
    \cup {[b EXCEPT !.slug = v] : v \in SlugOpts}
    \cup {[b EXCEPT !.status = v] : v \in StatusOpts}
    \cup {[b EXCEPT !.featuredImageId = v] : v \in FeaturedOpts}
    \cup {[b EXCEPT !.tags = v] : v \in TagsOpts}
    \cup {[b EXCEPT !.publishDate = v] : v \in DateOpts}
    \cup {[b EXCEPT !.authorId = v] : v \in OwnerOpts}

CreateBodies == {MalformedBody} \cup Vary(MinimalBody)
UpdateBodies == {MalformedBody} \cup Vary(EmptyBody)

\* the bodies that differ from b under one of the keys that decide the slug,
\* the status and the publishDate of the row
VaryLifecycle(b) ==
    {b}
    \cup {[b EXCEPT !.slug = v] : v \in SlugOpts}
    \cup {[b EXCEPT !.status = v] : v \in StatusOpts}
    \cup {[b EXCEPT !.publishDate = v] : v \in DateOpts}

LifecycleCreateBodies ==
    {MalformedBody, MinimalBody, [MinimalBody EXCEPT !.slug = Some(S_w)],
     [MinimalBody EXCEPT !.status = Some("PUBLISHED")]}
LifecycleUpdateBodies == {MalformedBody, [EmptyBody EXCEPT !.status = Some("DRAFT")]}

----------------------------------------------------------------------------
(* createReflectionSchema *)

\* z.string().min(1)
MinOne(s) == Len(s) >= 1

\* z.enum(["DRAFT", "PUBLISHED"])
PublicationStatus == {"DRAFT", "PUBLISHED"}

\* createReflectionSchema.parse(body) succeeds
createReflectionSchema(body) ==
    /\ IsSome(body.title) /\ MinOne(body.title[1])
    /\ IsSome(body.content) /\ MinOne(body.content[1])
    /\ IsSome(body.slug) => MinOne(body.slug[1])
    /\ IsSome(body.status) => body.status[1] \in PublicationStatus

\* the value it yields: status defaults to DRAFT, a key the schema does not
\* name is stripped
createValidated(body) ==
    [body EXCEPT !.status = IF IsSome(body.status) THEN body.status ELSE Some("DRAFT"),
                 !.authorId = None]

\* createReflectionSchema.partial().parse(body) succeeds: every key optional
partialSchema(body) ==
    /\ IsSome(body.title) => MinOne(body.title[1])
    /\ IsSome(body.content) => MinOne(body.content[1])
    /\ IsSome(body.slug) => MinOne(body.slug[1])
    /\ IsSome(body.status) => body.status[1] \in PublicationStatus

\* a parse that keeps the keys the schema does not name
partialPassthrough(body) == body

\* a parse that fills in the default of an absent status
partialDefaulting(body) == createValidated(body)

\* the value it yields: an absent key stays absent (the default sits inside the
\* optional), a key the schema does not name is stripped
partialValidated(body) == [body EXCEPT !.authorId = None]

----------------------------------------------------------------------------
(* Responses *)

\* op, who, target, query and body recall the request (route, principal, :id
\* parameter, query string, JSON body); code and msg are the status code and the error message; id is
\* the resource the body carries, items the resources a listing carries.
Reply(op, who, target, code, msg, id, items) ==
    [op |-> op, who |-> who, target |-> target, query |-> <<>>, body |-> None,
     code |-> code, msg |-> msg, id |-> id, items |-> items]

NoResponse == Reply("none", Anon, NoId, 0, "", NoId, {})

----------------------------------------------------------------------------
(* Guards shared by the routes *)

\* a middleware that lets every request through
requireNothing(user) == TRUE

\* requireAuth lets the request through to the handler
requireAuth(user) == user # Anon

\* existing.authorId !== user!.id
notAuthor(existing, user) == existing.authorId # user

\* a visibility test that forgets the authenticated non-author
draftHiddenFromAnonymousOnly(reflection, user) ==
    reflection.status = "DRAFT" /\ user = Anon

\* the visibility test of GET /get/:id
draftHidden(reflection, user) ==
    reflection.status = "DRAFT" /\ (user = Anon \/ user # reflection.authorId)

----------------------------------------------------------------------------
(* Persistence layer: the reflections table and its constraints *)

Exists(id) == id \in DOMAIN reflections

\* a table without the unique index
SlugNeverTaken(slug, exceptId) == FALSE

\* slug is @unique
SlugTaken(slug, exceptId) ==
    \E r \in DOMAIN reflections : r # exceptId /\ reflections[r].slug = slug

HasDuplicates(seq) == \E i, j \in 1..Len(seq) : i # j /\ seq[i] = seq[j]

\* the nested writes of tags (connect every tag id) can be carried out
TagsWritable(tagsOpt) ==
    IsSome(tagsOpt) =>
        /\ \A i \in 1..Len(tagsOpt[1]) : tagsOpt[1][i] \in tags
        /\ ~HasDuplicates(tagsOpt[1])

\* the foreign key featuredImageId -> images.id
FeaturedWritable(imgOpt) == IsSome(imgOpt) => imgOpt[1] \in DOMAIN images

\* a DateTime column takes an ISO-8601 string only
DateWritable(dateOpt) == IsSome(dateOpt) => dateOpt[1] # BadDate

TagPairs(id, tagSeq) == {<<id, tagSeq[i]>> : i \in 1..Len(tagSeq)}

Insert(table, id, row) == [k \in DOMAIN table \cup {id} |-> IF k = id THEN row ELSE table[k]]
Remove(table, id) == [k \in DOMAIN table \ {id} |-> table[k]]

\* where-clause of findMany: an absent key does not filter
Matches(where, row) ==
    /\ IsSome(where.status) => row.status = where.status[1]
    /\ IsSome(where.authorId) => row.authorId = where.authorId[1]

----------------------------------------------------------------------------
(* POST /api/reflections/create *)

\* a row that is stamped with the current time when it is created PUBLISHED
\* without a publishDate
NewReflectionStamped(validated, user) ==
    [title |-> validated.title[1],
     content |-> validated.content[1],
     slug |-> IF IsSome(validated.slug) THEN validated.slug[1]
              ELSE createSlug(validated.title[1]),
     status |-> validated.status[1],
     publishDate |-> IF validated.status[1] = "PUBLISHED" /\ ~IsSome(validated.publishDate)
                     THEN Some(now) ELSE validated.publishDate,
     authorId |-> user,
     featuredImageId |-> validated.featuredImageId]

\* data: { id, ...validated, publishDate, slug, authorId, tags }
NewReflection(validated, user) ==
    [title |-> validated.title[1],
     content |-> validated.content[1],
     slug |-> IF IsSome(validated.slug) THEN validated.slug[1]
              ELSE createSlug(validated.title[1]),
     status |-> validated.status[1],
     publishDate |-> validated.publishDate,
     authorId |-> user,
     featuredImageId |-> validated.featuredImageId]

CreateAccepted(body, user) ==
    /\ body.json
    /\ createReflectionSchema(body)
    /\ user # Anon
    /\ ~SlugTaken(NewReflection(createValidated(body), user).slug, NoId)
    /\ FeaturedWritable(body.featuredImageId)
    /\ DateWritable(body.publishDate)
    /\ TagsWritable(body.tags)

CreateReflection(user, body) ==
    LET reply(code, msg, id, items) ==
            [Reply("createReflection", user, NoId, code, msg, id, items)
                EXCEPT !.body = Some(body)]
    IN
    IF ~requireAuth(user)
    THEN /\ resp' = reply(401, "Unauthorized", NoId, {})
         /\ UNCHANGED <<dbVars, storage, nextId, now, stepVars>>
    ELSE IF ~CreateAccepted(body, user)
    THEN /\ resp' = reply(400, "Failed to create reflection", NoId, {})
         /\ UNCHANGED <<dbVars, storage, nextId, now, stepVars>>
    ELSE LET id == nextId.refl
             validated == createValidated(body)
         IN  /\ id <= MaxReflections
             /\ reflections' = Insert(reflections, id, NewReflection(validated, user))
             /\ reflectionTags' = reflectionTags \cup
                    (IF IsSome(validated.tags) THEN TagPairs(id, validated.tags[1]) ELSE {})
             /\ nextId' = [nextId EXCEPT !.refl = id + 1]
             /\ resp' = reply(201, "", id, {})
             /\ UNCHANGED <<tags, albums, images, storage, now, stepVars>>

----------------------------------------------------------------------------
(* GET /api/reflections/get *)

\* if (x) for a query parameter: absent and empty are both falsy
Truthy(q) == IsSome(q) /\ q[1] # ""

\* a where clause that keeps the requested status for an anonymous caller
ListWhereAsRequested(status, authorId, user) ==
    LET w1 == [status |-> IF Truthy(status) THEN status ELSE None,
               authorId |-> IF Truthy(authorId) THEN authorId ELSE None]
    IN  IF status = Some("DRAFT") /\ (user = Anon \/ Some(user) # authorId)
        THEN [w1 EXCEPT !.authorId = Some("none")]
        ELSE w1

\* the object spread that builds the where clause: a later key overrides an earlier one
ListWhere(status, authorId, user) ==
    LET w1 == [status |-> IF Truthy(status) THEN status ELSE None,
               authorId |-> IF Truthy(authorId) THEN authorId ELSE None]
        w2 == IF user = Anon THEN [w1 EXCEPT !.status = Some("PUBLISHED")] ELSE w1
        w3 == IF status = Some("DRAFT") /\ (user = Anon \/ Some(user) # authorId)
              THEN [w2 EXCEPT !.authorId = Some("none")]
              ELSE w2
    IN  w3

ListReflections(user, status, authorId) ==
    LET where == ListWhere(status, authorId, user)
        reply ==
              IF IsSome(where.status) /\ where.status[1] \notin PublicationStatus
              THEN Reply("listReflections", user, NoId, 500, "Internal Server Error", NoId, {})
              ELSE Reply("listReflections", user, NoId, 200, "", NoId,
                         {r \in DOMAIN reflections : Matches(where, reflections[r])})
    IN  /\ resp' = [reply EXCEPT !.query = <<status, authorId>>]
        /\ UNCHANGED <<dbVars, storage, nextId, now, stepVars>>

----------------------------------------------------------------------------
(* GET /api/reflections/get/:id *)

GetReflectionResponse(user, id) ==
    IF ~Exists(id)
    THEN Reply("getReflection", user, id, 404, "Reflection not found", NoId, {})
    ELSE IF draftHidden(reflections[id], user)
    THEN Reply("getReflection", user, id, 404, "Not found", NoId, {})
    ELSE Reply("getReflection", user, id, 200, "", id, {})

GetReflection(user, id) ==
    /\ resp' = GetReflectionResponse(user, id)
    /\ UNCHANGED <<dbVars, storage, nextId, now, stepVars>>

----------------------------------------------------------------------------
(* Requests in progress *)

\* A handler runs in one step from one await to the next. A request that has
\* passed its ownership test waits in pending for the call it awaits:
\*   stage       the awaited call: "write" (the update or delete of the row),
\*               "remove" (deleteFile), "deleteMany", "upload" (uploadFile),
\*               "insert" (image.create), "deleteRow" (image.delete),
\*               "readAlbum" (the last findUnique of the image deletion)
\*   body, form  what the client sent
\*   path        the :albumId of DELETE /:albumId/images/:imageId
\*   read        the urls of existing.images (of the image) as read at the test
\*   todo        those of them whose object is still to be deleted
\*   file, image the index and the dbImageId of the file being uploaded
\*   date        the new Date() made when the awaited update was issued
\* Two requests that are alike are two requests: pending is a bag.
InFlight(op, user, id, stage) ==
    [op |-> op, who |-> user, target |-> id, stage |-> stage, path |-> NoId,
     body |-> None, form |-> None, read |-> {}, todo |-> {}, file |-> 0, image |-> NoId,
     date |-> 0]

Requests == BagToSet(pending)
\* the handler is suspended at an await
Suspend(p) == pending (+) SetToBag({p})
\* the awaited call returns and the handler runs on to its next await
Resume(p, q) == (pending (-) SetToBag({p})) (+) SetToBag({q})
\* the awaited call returns and the handler answers
Finish(p) == pending (-) SetToBag({p})
\* the server takes on another request that has to wait: the requests in
\* progress are the suspended ones and the album creations with a promise
\* that has not settled
HasRoom == BagCardinality(pending) + Cardinality({t.album : t \in tasks}) < MaxPending

ReflectionWrites == {"updateReflection", "deleteReflection", "publishReflection"}
AlbumWrites == {"updateAlbum", "deleteAlbum"}

----------------------------------------------------------------------------
(* PUT /api/reflections/update/:id *)

\* prisma.reflection.update: a key that is absent from data keeps its column
UpdatedReflection(row, validated) ==
    [row EXCEPT
        !.title = IF IsSome(validated.title) THEN validated.title[1] ELSE @,
        !.content = IF IsSome(validated.content) THEN validated.content[1] ELSE @,
        !.slug = IF IsSome(validated.slug) THEN validated.slug[1] ELSE @,
        !.status = IF IsSome(validated.status) THEN validated.status[1] ELSE @,
        !.publishDate = IF IsSome(validated.publishDate) THEN validated.publishDate ELSE @,
        !.featuredImageId =
            IF IsSome(validated.featuredImageId) THEN validated.featuredImageId ELSE @,
        \* ...validated: every key that survived the parse is written
        !.authorId = IF IsSome(validated.authorId) THEN validated.authorId[1] ELSE @]

\* prisma.reflection.update({ where: { id }, data }) can be carried out
UpdateAccepted(id, body) ==
    /\ Exists(id)
    /\ IsSome(body.slug) => ~SlugTaken(body.slug[1], id)
    /\ FeaturedWritable(body.featuredImageId)
    /\ DateWritable(body.publishDate)
    /\ TagsWritable(body.tags)

\* the handler up to its await of prisma.reflection.update
UpdateReflection(user, id, body) ==
    LET answer(code, msg) ==
            /\ resp' = Reply("updateReflection", user, id, code, msg, NoId, {})
            /\ UNCHANGED <<dbVars, storage, nextId, now, stepVars>>
    IN
    IF ~requireAuth(user) THEN answer(401, "Unauthorized")
    ELSE IF ~body.json THEN answer(400, "Failed to update reflection")
    ELSE IF ~Exists(id) THEN answer(404, "Reflection not found")
    ELSE IF user = Anon THEN answer(400, "Failed to update reflection")
    ELSE IF notAuthor(reflections[id], user) THEN answer(403, "Unauthorized")
    ELSE IF ~partialSchema(body) THEN answer(400, "Failed to update reflection")
    ELSE /\ HasRoom
         /\ pending' = Suspend([InFlight("updateReflection", user, id, "write")
                                  EXCEPT !.body = Some(body)])
         /\ UNCHANGED <<dbVars, storage, nextId, now, resp, tasks, slugCall>>

----------------------------------------------------------------------------
(* DELETE /api/reflections/delete/:id *)

\* a foreign key that lets the associations outlive the reflection
KeepTags(pairs, id) == pairs

\* reflection_tags.reflectionId is onDelete: Cascade
CascadeTags(pairs, id) == {t \in pairs : t[1] # id}

\* the handler up to its await of prisma.reflection.delete
DeleteReflection(user, id) ==
    LET answer(code, msg) ==
            /\ resp' = Reply("deleteReflection", user, id, code, msg, NoId, {})
            /\ UNCHANGED <<dbVars, storage, nextId, now, stepVars>>
    IN
    IF ~requireAuth(user) THEN answer(401, "Unauthorized")
    ELSE IF ~Exists(id) THEN answer(404, "Reflection not found")
    ELSE IF user = Anon THEN answer(400, "Failed to delete reflection")
    ELSE IF notAuthor(reflections[id], user) THEN answer(403, "Unauthorized")
    ELSE /\ HasRoom
         /\ pending' = Suspend(InFlight("deleteReflection", user, id, "write"))
         /\ UNCHANGED <<dbVars, storage, nextId, now, resp, tasks, slugCall>>

----------------------------------------------------------------------------
(* PATCH /api/reflections/publish/:id *)

\* a publication that stamps the date only the first time
PublishedOnce(row, date) ==
    [row EXCEPT !.status = "PUBLISHED",
                !.publishDate = IF IsSome(@) THEN @ ELSE Some(date)]

\* data: { status: "PUBLISHED", publishDate: new Date() }
PublishedReflection(row, date) ==
    [row EXCEPT !.status = "PUBLISHED", !.publishDate = Some(date)]

\* the handler up to its await of prisma.reflection.update: the argument of
\* the call, new Date() included, is made before the handler yields
PublishReflection(user, id) ==
    LET answer(code, msg) ==
            /\ resp' = Reply("publishReflection", user, id, code, msg, NoId, {})
            /\ UNCHANGED <<dbVars, storage, nextId, now, stepVars>>
    IN
    IF ~requireAuth(user) THEN answer(401, "Unauthorized")
    ELSE IF ~Exists(id) THEN answer(404, "Reflection not found")
    ELSE IF user = Anon THEN answer(400, "Failed to publish reflection")
    ELSE IF notAuthor(reflections[id], user) THEN answer(403, "Unauthorized")
    ELSE /\ HasRoom
         /\ pending' = Suspend([InFlight("publishReflection", user, id, "write")
                                  EXCEPT !.date = now])
         /\ UNCHANGED <<dbVars, storage, nextId, now, resp, tasks, slugCall>>

----------------------------------------------------------------------------
(* The awaited write of the three guarded reflection routes *)

\* prisma update and delete throw when the row is gone or a constraint is
\* violated, and the catch block answers 400; the data written are the ones
\* the handler made when it issued the call
ReflectionWrite(p) ==
    LET id == p.target
        reply(code, msg, rid) ==
            [Reply(p.op, p.who, id, code, msg, rid, {}) EXCEPT !.body = p.body]
        fail(msg) == /\ resp' = reply(400, msg, NoId)
                     /\ UNCHANGED <<dbVars, storage, nextId, now>>
    IN
    /\ p.stage = "write"
    /\ p.op \in ReflectionWrites
    /\ pending' = Finish(p)
    /\ UNCHANGED <<tasks, slugCall>>
    /\ CASE p.op = "updateReflection" ->
              IF ~UpdateAccepted(id, p.body[1])
              THEN fail("Failed to update reflection")
              ELSE LET validated == partialValidated(p.body[1])
                   IN  /\ reflections' =
                              [reflections EXCEPT ![id] = UpdatedReflection(@, validated)]
                       /\ reflectionTags' =
                              IF IsSome(validated.tags)
                              THEN {t \in reflectionTags : t[1] # id}
                                       \cup TagPairs(id, validated.tags[1])
                              ELSE reflectionTags
                       /\ resp' = reply(200, "", id)
                       /\ UNCHANGED <<tags, albums, images, storage, nextId, now>>
         [] p.op = "deleteReflection" ->
              IF ~Exists(id) THEN fail("Failed to delete reflection")
              ELSE /\ reflections' = Remove(reflections, id)
                   /\ reflectionTags' = CascadeTags(reflectionTags, id)
                   /\ resp' = reply(200, "", NoId)
                   /\ UNCHANGED <<tags, albums, images, storage, nextId, now>>
         [] p.op = "publishReflection" ->
              IF ~Exists(id) THEN fail("Failed to publish reflection")
              ELSE /\ reflections' =
                          [reflections EXCEPT ![id] = PublishedReflection(@, p.date)]
                   /\ resp' = reply(200, "", id)
                   /\ UNCHANGED <<reflectionTags, tags, albums, images, storage, nextId, now>>

----------------------------------------------------------------------------
(* Object storage: storageHelpers over the bucket "albums" *)

\* the path `${albumId}/${fileName}` of an object, also the tail of its public URL
ObjectPath(albumId, fileName) == <<albumId, fileName>>

\* image.url.split("/").pop()
LastSegment(url) == url[Len(url)]

\* the foreign key reflections.featuredImageId -> images.id is optional: SetNull
ClearFeatured(table, gone) ==
    [r \in DOMAIN table |->
        IF IsSome(table[r].featuredImageId) /\ table[r].featuredImageId[1] \in gone
        THEN [table[r] EXCEPT !.featuredImageId = None]
        ELSE table[r]]

ImagesOf(albumId) == {i \in DOMAIN images : images[i].albumId = albumId}

RemoveAll(table, gone) == [k \in DOMAIN table \ gone |-> table[k]]

\* a storage call whose error is dropped
deleteFileSwallows(error) == FALSE

\* storageHelpers.deleteFile: if (error) throw error
deleteFileThrows(error) == error

\* a storage call whose error is dropped
uploadFileSwallows(error) == FALSE

\* storageHelpers.uploadFile: if (error) throw error
uploadFileThrows(error) == error

----------------------------------------------------------------------------
(* Multipart forms of the album routes *)

\* albumData: the part is missing, is no JSON text, or parses to an object
\* with the keys name, description, date, images (nMeta entries, -1: no array)
\* and imageIdsToDelete; nFiles: the parts image_0 .. image_{nFiles-1};
\* uploadedById: a key no schema names, that a client may send all the same
AlbumForm(part, name, description, date, nMeta, toDelete, nFiles) ==
    [part |-> part, name |-> name, description |-> description, date |-> date,
     nMeta |-> nMeta, toDelete |-> toDelete, nFiles |-> nFiles, uploadedById |-> None]

\* createAlbumSchema.parse(albumData) succeeds
createAlbumSchema(form) ==
    /\ IsSome(form.name) /\ form.name[1] # ""
    /\ IsSome(form.date)
    /\ form.nMeta >= 0

\* updateAlbumSchema.parse(albumData) succeeds
updateAlbumSchema(form) ==
    IsSome(form.name) => form.name[1] # ""

\* existing.uploadedById !== user!.id
notUploader(existing, user) == existing.uploadedById # user

----------------------------------------------------------------------------
(* POST /api/albums/create: the handler inserts the album row and starts one *)
(* promise per file; each promise uploads, then inserts its Image row; the   *)
(* handler awaits Promise.all of them.                                       *)

\* the handler waiting on Promise.all for the album id, with left of the
\* promises of its files still to be fulfilled
Waiter(user, id, left) ==
    [album |-> id, image |-> NoId, index |-> 0, stage |-> "all", who |-> user,
     meta |-> FALSE, files |-> left, left |-> left]

\* the promise of file i: its dbImageId, the stage it is at, and whether
\* validated.images[i] is there
FileTask(user, id, imageId, i, form) ==
    [album |-> id, image |-> imageId, index |-> i, stage |-> "upload", who |-> user,
     meta |-> i <= form.nMeta, files |-> form.nFiles, left |-> 0]

\* the handler up to the await of Promise.all
CreateAlbum(user, form) ==
    LET op == "createAlbum"
        answer(code, msg) ==
            /\ resp' = Reply(op, user, NoId, code, msg, NoId, {})
            /\ UNCHANGED <<dbVars, storage, nextId, now, stepVars>>
    IN
    IF ~requireAuth(user) THEN answer(401, "Unauthorized")
    ELSE IF form.part = "missing" THEN answer(400, "Album data is required")
    ELSE IF form.part = "badjson" THEN answer(400, "Failed to create album")
    ELSE IF ~createAlbumSchema(form) THEN answer(400, "Validation error")
    ELSE IF form.nFiles = 0 THEN answer(400, "At least one image is required")
    ELSE IF form.date[1] = BadDate \/ user = Anon THEN answer(400, "Failed to create album")
    ELSE LET id == nextId.album
             imageId(i) == nextId.image + i - 1
         IN  /\ HasRoom
             /\ id <= MaxAlbums
             /\ nextId.image + form.nFiles - 1 <= MaxImages
             /\ albums' = Insert(albums, id,
                    [uploadedById |-> user, name |-> form.name[1],
                     description |-> form.description, date |-> form.date[1]])
             /\ nextId' = [nextId EXCEPT !.album = id + 1, !.image = @ + form.nFiles]
             /\ tasks' = tasks \cup {Waiter(user, id, form.nFiles)}
                    \cup {FileTask(user, id, imageId(i), i, form) : i \in 1..form.nFiles}
             /\ UNCHANGED <<reflections, reflectionTags, tags, images, storage, now, resp,
                            pending, slugCall>>

\* the handlers that still await the promises of the album
WaitersOf(id) == {w \in tasks : w.stage = "all" /\ w.album = id}

\* a catch block that undoes the insert of the album
RollsBack(table, id) == Remove(table, id)

\* the catch block answers and leaves the album row where it is
CatchKeeps(table, id) == table

\* a promise rejects: Promise.all rejects with it if it has not settled yet,
\* and the catch block answers 400; the other promises are left running
Rejects(t) ==
    /\ tasks' = tasks \ ({t} \cup WaitersOf(t.album))
    /\ resp' = IF WaitersOf(t.album) # {}
               THEN Reply("createAlbum", t.who, NoId, 400, "Failed to create album", NoId, {})
               ELSE resp
    /\ albums' = IF WaitersOf(t.album) # {} THEN CatchKeeps(albums, t.album) ELSE albums

\* await storageHelpers.uploadFile, then validated.images[index].alt
TaskUpload(t, ok) ==
    /\ t.stage = "upload"
    /\ UNCHANGED <<reflections, reflectionTags, tags, images, nextId, now, pending, slugCall>>
    /\ IF uploadFileThrows(~ok)
       THEN Rejects(t) /\ UNCHANGED storage
       ELSE /\ storage' = IF ok THEN storage \cup {ObjectPath(t.album, t.image)} ELSE storage
            /\ IF t.meta
               THEN /\ tasks' = (tasks \ {t}) \cup {[t EXCEPT !.stage = "insert"]}
                    /\ UNCHANGED <<resp, albums>>
               ELSE Rejects(t)

\* await prisma.image.create, which the foreign key images.albumId refuses
\* when the album is gone; Promise.all is fulfilled by the last promise
TaskInsert(t) ==
    /\ t.stage = "insert"
    /\ UNCHANGED <<reflections, reflectionTags, tags, storage, nextId, now, pending, slugCall>>
    /\ IF t.album \notin DOMAIN albums
       THEN Rejects(t) /\ UNCHANGED images
       ELSE /\ images' = Insert(images, t.image,
                   [url |-> ObjectPath(t.album, t.image), albumId |-> t.album,
                    userId |-> t.who])
            /\ tasks' = (tasks \ ({t} \cup WaitersOf(t.album)))
                   \cup {[w EXCEPT !.left = @ - 1] :
                            w \in {v \in WaitersOf(t.album) : v.left > 1}}
            /\ resp' = IF \E w \in WaitersOf(t.album) : w.left = 1
                       THEN Reply("createAlbum", t.who, NoId, 201, "", t.album, {})
                       ELSE resp
            /\ UNCHANGED albums

----------------------------------------------------------------------------
(* PUT /api/albums/:id *)

\* prisma.album.update with updateData: a falsy value leaves the column alone
UpdatedAlbum(row, form) ==
    [row EXCEPT
        !.name = IF IsSome(form.name) /\ form.name[1] # "" THEN form.name[1] ELSE @,
        !.description = IF IsSome(form.description) /\ form.description[1] # ""
                        THEN form.description ELSE @,
        !.date = IF IsSome(form.date) THEN form.date[1] ELSE @]

\* the listed images that existing.images.find() finds
FoundImages(toDelete, id) == toDelete \cap ImagesOf(id)

\* every listed image, whichever album it belongs to
DeleteManyListed(toDelete, id) == toDelete \cap DOMAIN images

\* the rows deleteMany({ id: { in: imageIdsToDelete }, albumId: id }) matches
DeleteManyMatches(toDelete, id) == toDelete \cap ImagesOf(id)

\* the handler goes on to upload file i: const dbImageId = crypto.randomUUID()
HasFile(p, i) == i <= p.form[1].nFiles

\* the await the handler reaches after its deletions and i - 1 uploads
AtFile(p, i) ==
    IF HasFile(p, i)
    THEN [p EXCEPT !.stage = "upload", !.file = i, !.image = nextId.image]
    ELSE [p EXCEPT !.stage = "write", !.file = 0, !.image = NoId]

\* the handler up to its first await after the parse of the form
UpdateAlbum(user, id, form) ==
    LET op == "updateAlbum"
        answer(code, msg) ==
            /\ resp' = Reply(op, user, id, code, msg, NoId, {})
            /\ UNCHANGED <<dbVars, storage, nextId, now, stepVars>>
    IN
    IF ~requireAuth(user) THEN answer(401, "Unauthorized")
    ELSE IF form.part = "missing" THEN answer(400, "Album data is required")
    ELSE IF form.part = "badjson" THEN answer(400, "Invalid JSON data")
    ELSE IF id \notin DOMAIN albums THEN answer(404, "Album not found")
    ELSE IF user = Anon THEN answer(400, "Failed to update album")
    ELSE IF notUploader(albums[id], user) THEN answer(403, "Unauthorized")
    ELSE IF ~updateAlbumSchema(form) THEN answer(400, "Validation error")
    ELSE LET urls == {images[i].url : i \in FoundImages(form.toDelete, id)}
             p == [InFlight(op, user, id, "deleteMany") EXCEPT !.form = Some(form)]
         IN  /\ HasRoom
             /\ UNCHANGED <<dbVars, storage, now, resp, tasks, slugCall>>
             /\ IF form.toDelete # {}
                THEN \* the loop over imageIdsToDelete, then deleteMany
                     /\ pending' = Suspend(
                            IF urls # {}
                            THEN [p EXCEPT !.stage = "remove", !.read = urls, !.todo = urls]
                            ELSE p)
                     /\ UNCHANGED nextId
                ELSE /\ HasFile(p, 1) => nextId.image <= MaxImages
                     /\ pending' = Suspend(AtFile(p, 1))
                     /\ nextId' = IF HasFile(p, 1)
                                  THEN [nextId EXCEPT !.image = @ + 1] ELSE nextId

----------------------------------------------------------------------------
(* DELETE /api/albums/:id *)

\* the handler up to its first await after the ownership test
DeleteAlbum(user, id) ==
    LET op == "deleteAlbum"
        answer(code, msg) ==
            /\ resp' = Reply(op, user, id, code, msg, NoId, {})
            /\ UNCHANGED <<dbVars, storage, nextId, now, stepVars>>
    IN
    IF ~requireAuth(user) THEN answer(401, "Unauthorized")
    ELSE IF id \notin DOMAIN albums THEN answer(404, "Album not found")
    ELSE IF user = Anon THEN answer(400, "Failed to delete album")
    ELSE IF notUploader(albums[id], user) THEN answer(403, "Unauthorized")
    ELSE LET urls == {images[i].url : i \in ImagesOf(id)}
             p == [InFlight(op, user, id, IF urls # {} THEN "remove" ELSE "write")
                     EXCEPT !.read = urls, !.todo = urls]
         IN  /\ HasRoom
             /\ pending' = Suspend(p)
             /\ UNCHANGED <<dbVars, storage, nextId, now, resp, tasks, slugCall>>

----------------------------------------------------------------------------
(* DELETE /api/albums/:albumId/images/:imageId *)

\* the handler up to its await of storageHelpers.deleteFile
DeleteImage(user, albumId, imageId) ==
    LET op == "deleteImage"
        answer(code, msg) ==
            /\ resp' = [Reply(op, user, imageId, code, msg, NoId, {})
                          EXCEPT !.query = <<albumId>>]
            /\ UNCHANGED <<dbVars, storage, nextId, now, stepVars>>
    IN
    IF ~requireAuth(user) THEN answer(401, "Unauthorized")
    ELSE IF imageId \notin DOMAIN images THEN answer(404, "Image not found")
    ELSE IF user = Anon THEN answer(400, "Failed to delete image")
    ELSE IF notUploader(albums[images[imageId].albumId], user)
    THEN answer(403, "Unauthorized")
    ELSE LET urls == {images[imageId].url}
             p == [InFlight(op, user, imageId, "remove")
                     EXCEPT !.path = albumId, !.read = urls, !.todo = urls]
         IN  /\ HasRoom
             /\ pending' = Suspend(p)
             /\ UNCHANGED <<dbVars, storage, nextId, now, resp, tasks, slugCall>>

----------------------------------------------------------------------------
(* The awaited calls of the album routes *)

\* the text of the catch block of each route
Failed(op) ==
    CASE op = "updateAlbum" -> "Failed to update album"
      [] op = "deleteAlbum" -> "Failed to delete album"
      [] op = "deleteImage" -> "Failed to delete image"

\* the answer of a request in progress
Answer(p, code, msg, id) ==
    [Reply(p.op, p.who, p.target, code, msg, id, {})
        EXCEPT !.body = p.form,
               !.query = IF p.op = "deleteImage" THEN <<p.path>> ELSE <<>>]

\* await storageHelpers.deleteFile("albums", `${id}/${filePath}`), with the
\* albumId of the request path when one image is deleted; ok: storage reports
\* no error
StorageDelete(p, ok) ==
    /\ p.stage = "remove"
    /\ UNCHANGED <<dbVars, nextId, now, tasks, slugCall>>
    /\ \E url \in p.todo :
          LET dir == IF p.op = "deleteImage" THEN p.path ELSE p.target
              left == p.todo \ {url}
              after == CASE p.op = "updateAlbum" -> "deleteMany"
                         [] p.op = "deleteAlbum" -> "write"
                         [] p.op = "deleteImage" -> "deleteRow"
          IN  IF deleteFileThrows(~ok)
              THEN /\ resp' = Answer(p, 400, Failed(p.op), NoId)
                   /\ pending' = Finish(p)
                   /\ UNCHANGED storage
              ELSE /\ storage' = IF ok THEN storage \ {ObjectPath(dir, LastSegment(url))}
                                 ELSE storage
                   /\ pending' = Resume(p, [p EXCEPT !.todo = left,
                                                     !.stage = IF left = {} THEN after ELSE @])
                   /\ UNCHANGED resp

\* await prisma.image.deleteMany, then the handler goes on to its first upload
ImageDeleteMany(p) ==
    LET gone == DeleteManyMatches(p.form[1].toDelete, p.target)
    IN  /\ p.stage = "deleteMany"
        /\ HasFile(p, 1) => nextId.image <= MaxImages
        /\ images' = RemoveAll(images, gone)
        /\ reflections' = ClearFeatured(reflections, gone)
        /\ pending' = Resume(p, AtFile(p, 1))
        /\ nextId' = IF HasFile(p, 1) THEN [nextId EXCEPT !.image = @ + 1] ELSE nextId
        /\ UNCHANGED <<reflectionTags, tags, albums, storage, now, resp, tasks, slugCall>>

\* await storageHelpers.uploadFile("albums", `${id}/${dbImageId}`, file)
StorageUpload(p, ok) ==
    /\ p.stage = "upload"
    /\ UNCHANGED <<dbVars, nextId, now, tasks, slugCall>>
    /\ IF uploadFileThrows(~ok)
       THEN /\ resp' = Answer(p, 400, Failed(p.op), NoId)
            /\ pending' = Finish(p)
            /\ UNCHANGED storage
       ELSE /\ storage' = IF ok THEN storage \cup {ObjectPath(p.target, p.image)} ELSE storage
            /\ pending' = Resume(p, [p EXCEPT !.stage = "insert"])
            /\ UNCHANGED resp

\* await prisma.image.create, which the foreign key images.albumId refuses
\* when the album is gone; then the handler goes on to its next upload
ImageCreate(p) ==
    /\ p.stage = "insert"
    /\ UNCHANGED <<reflections, reflectionTags, tags, albums, storage, now, tasks, slugCall>>
    /\ IF p.target \notin DOMAIN albums
       THEN /\ resp' = Answer(p, 400, Failed(p.op), NoId)
            /\ pending' = Finish(p)
            /\ UNCHANGED <<images, nextId>>
       ELSE /\ HasFile(p, p.file + 1) => nextId.image <= MaxImages
            /\ images' = Insert(images, p.image,
                   [url |-> ObjectPath(p.target, p.image), albumId |-> p.target,
                    userId |-> p.who])
            /\ pending' = Resume(p, AtFile(p, p.file + 1))
            /\ nextId' = IF HasFile(p, p.file + 1)
                         THEN [nextId EXCEPT !.image = @ + 1] ELSE nextId
            /\ UNCHANGED resp

\* await prisma.album.update / prisma.album.delete: both throw when the row
\* is gone; images.albumId is onDelete: Cascade
AlbumWrite(p) ==
    LET id == p.target
        fail == /\ resp' = Answer(p, 400, Failed(p.op), NoId)
                /\ UNCHANGED <<dbVars, storage, nextId, now>>
    IN
    /\ p.stage = "write"
    /\ p.op \in AlbumWrites
    /\ pending' = Finish(p)
    /\ UNCHANGED <<tasks, slugCall>>
    /\ CASE p.op = "updateAlbum" ->
              IF \/ id \notin DOMAIN albums
                 \/ IsSome(p.form[1].date) /\ p.form[1].date[1] = BadDate
              THEN fail
              ELSE /\ albums' = [albums EXCEPT ![id] = UpdatedAlbum(@, p.form[1])]
                   /\ resp' = Answer(p, 200, "", id)
                   /\ UNCHANGED <<reflections, reflectionTags, tags, images, storage,
                                  nextId, now>>
         [] p.op = "deleteAlbum" ->
              IF id \notin DOMAIN albums THEN fail
              ELSE /\ albums' = Remove(albums, id)
                   /\ images' = RemoveAll(images, ImagesOf(id))
                   /\ reflections' = ClearFeatured(reflections, ImagesOf(id))
                   /\ resp' = Answer(p, 200, "", NoId)
                   /\ UNCHANGED <<reflectionTags, tags, storage, nextId, now>>

\* await prisma.image.delete({ where: { id: imageId } })
ImageDelete(p) ==
    /\ p.stage = "deleteRow"
    /\ UNCHANGED <<reflectionTags, tags, albums, storage, nextId, now, tasks, slugCall>>
    /\ IF p.target \notin DOMAIN images
       THEN /\ resp' = Answer(p, 400, Failed(p.op), NoId)
            /\ pending' = Finish(p)
            /\ UNCHANGED <<reflections, images>>
       ELSE /\ images' = Remove(images, p.target)
            /\ reflections' = ClearFeatured(reflections, {p.target})
            /\ pending' = Resume(p, [p EXCEPT !.stage = "readAlbum"])
            /\ UNCHANGED resp

\* await prisma.album.findUnique({ where: { id: albumId } }): the body is the
\* album of the request path, null when there is none
AlbumRead(p) ==
    /\ p.stage = "readAlbum"
    /\ resp' = Answer(p, 200, "", IF p.path \in DOMAIN albums THEN p.path ELSE NoId)
    /\ pending' = Finish(p)
    /\ UNCHANGED <<dbVars, storage, nextId, now, tasks, slugCall>>

----------------------------------------------------------------------------
(* The clock *)

Tick ==
    /\ now < MaxTime
    /\ now' = now + 1
    /\ UNCHANGED <<dbVars, storage, nextId, resp, stepVars>>

----------------------------------------------------------------------------
(* The response leaves the server: the exchange is over *)

Deliver ==
    /\ resp # NoResponse
    /\ resp' = NoResponse
    /\ UNCHANGED <<dbVars, storage, nextId, now, stepVars>>

\* no response is on its way out: the server runs the next step of a handler
Idle == resp = NoResponse

----------------------------------------------------------------------------
(* Requests *)

StatusQueries == {None, Some(""), Some("DRAFT"), Some("PUBLISHED"), Some("OTHER")}
AuthorQueries == {None, Some("")} \cup {Some(u) : u \in Users}
ReflParams == ReflIds \cup {NoId}

Init ==
    /\ reflections = <<>>
    /\ reflectionTags = {}
    /\ tags = Tags
    /\ albums = <<>>
    /\ images = <<>>
    /\ storage = {}
    /\ nextId = [refl |-> 1, album |-> 1, image |-> 1]
    /\ now = 1
    /\ resp = NoResponse
    /\ pending = EmptyBag
    /\ tasks = {}
    /\ slugCall = [arg |-> <<>>, out |-> None]

----------------------------------------------------------------------------
(* Album requests *)

AlbumParams == AlbumIds \cup {NoId}
ImageParams == ImageIds \cup {NoId}

\* a well-formed form with n files and one entry of images per file
PlainForm(n) == AlbumForm("ok", Some("n1"), None, Some(SuppliedDate), n, {}, n)
\* a form that changes nothing
EmptyForm == AlbumForm("ok", None, None, None, 0, {}, 0)

\* the image ids a client can name: an id is a random UUID, which a client
\* learns from the rows it reads; NoId stands for an id of no image
KnownImages == DOMAIN images \cup {NoId}

\* forms that only carry imageIdsToDelete: ids of this album, of another, of none
DeleteListForms == {[EmptyForm EXCEPT !.toDelete = d] : d \in SUBSET KnownImages}

----------------------------------------------------------------------------
(* The album routes on the albums of one uploader, over a storage that may   *)
(* fail                                                                     *)

CreateForms == {PlainForm(1), [PlainForm(1) EXCEPT !.nMeta = 0]}

UpdateForms ==
    {[EmptyForm EXCEPT !.nFiles = 1]}
    \cup {[EmptyForm EXCEPT !.toDelete = {i}] : i \in KnownImages}

NextAlbums ==
    \/ /\ Idle
       /\ \E user \in Creators, form \in CreateForms : CreateAlbum(user, form)
    \/ /\ Idle
       /\ \E t \in tasks, ok \in BOOLEAN : TaskUpload(t, ok)
    \/ /\ Idle
       /\ \E t \in tasks : TaskInsert(t)
    \/ /\ Idle
       /\ \E user \in Creators, id \in AlbumParams, form \in UpdateForms :
             UpdateAlbum(user, id, form)
    \/ /\ Idle
       /\ \E user \in Creators, id \in AlbumParams : DeleteAlbum(user, id)
    \/ /\ Idle
       /\ \E user \in Creators, albumId \in AlbumIds, imageId \in ImageParams :
             DeleteImage(user, albumId, imageId)
    \/ /\ Idle
       /\ \E p \in Requests, ok \in BOOLEAN : StorageDelete(p, ok)
    \/ /\ Idle
       /\ \E p \in Requests : ImageDeleteMany(p)
    \/ /\ Idle
       /\ \E p \in Requests, ok \in BOOLEAN : StorageUpload(p, ok)
    \/ /\ Idle
       /\ \E p \in Requests : ImageCreate(p)
    \/ /\ Idle
       /\ \E p \in Requests : AlbumWrite(p)
    \/ /\ Idle
       /\ \E p \in Requests : ImageDelete(p)
    \/ /\ Idle
       /\ \E p \in Requests : AlbumRead(p)
    \/ Deliver

SpecAlbums == Init /\ [][NextAlbums]_vars

----------------------------------------------------------------------------
(* Creation and deletion of albums over a storage that may fail *)

\* forms with n files and at most one entry of images per file
UploadForms ==
    UNION {{[PlainForm(n) EXCEPT !.nMeta = m] : m \in (n - 1)..n} : n \in 1..MaxFiles}

NextStorageFailures ==
    \/ /\ Idle
       /\ \E user \in Principals, form \in UploadForms : CreateAlbum(user, form)
    \/ /\ Idle
       /\ \E t \in tasks, ok \in BOOLEAN : TaskUpload(t, ok)
    \/ /\ Idle
       /\ \E t \in tasks : TaskInsert(t)
    \/ /\ Idle
       /\ \E user \in Principals, id \in AlbumParams : DeleteAlbum(user, id)
    \/ /\ Idle
       /\ \E p \in Requests, ok \in BOOLEAN : StorageDelete(p, ok)
    \/ /\ Idle
       /\ \E p \in Requests : AlbumWrite(p)
    \/ Deliver

SpecStorageFailures == Init /\ [][NextStorageFailures]_vars

----------------------------------------------------------------------------
(* The reflection routes, reads included, as the clock advances *)

NextReflections ==
    \/ /\ Idle
       /\ \E user \in Principals, body \in LifecycleCreateBodies : CreateReflection(user, body)
    \/ /\ Idle
       /\ \E user \in Principals, status \in StatusQueries, authorId \in AuthorQueries :
             ListReflections(user, status, authorId)
    \/ /\ Idle
       /\ \E user \in Principals, id \in ReflParams : GetReflection(user, id)
    \/ /\ Idle
       /\ \E user \in Principals, id \in ReflParams, body \in LifecycleUpdateBodies :
             UpdateReflection(user, id, body)
    \/ /\ Idle
       /\ \E user \in Principals, id \in ReflParams : DeleteReflection(user, id)
    \/ /\ Idle
       /\ \E user \in Principals, id \in ReflParams : PublishReflection(user, id)
    \/ /\ Idle
       /\ \E p \in Requests : ReflectionWrite(p)
    \/ Idle /\ Tick
    \/ Deliver

SpecReflections == Init /\ [][NextReflections]_vars

----------------------------------------------------------------------------
(* Creation, publication and deletion of reflections, at one instant, on    *)
(* every body                                                               *)

NextReflectionWrites ==
    \/ /\ Idle
       /\ \E user \in Principals, body \in CreateBodies : CreateReflection(user, body)
    \/ /\ Idle
       /\ \E user \in Principals, id \in ReflParams : PublishReflection(user, id)
    \/ /\ Idle
       /\ \E user \in Principals, id \in ReflParams : DeleteReflection(user, id)
    \/ /\ Idle
       /\ \E p \in Requests : ReflectionWrite(p)
    \/ Deliver

SpecReflectionWrites == Init /\ [][NextReflectionWrites]_vars

----------------------------------------------------------------------------
(* Updates of the reflections of one author, at one instant, on every body *)

UpdatedCreateBodies ==
    {MinimalBody, [MinimalBody EXCEPT !.slug = Some(S_w)],
     [MinimalBody EXCEPT !.status = Some("PUBLISHED"), !.tags = Some(<<"t1">>)]}

NextReflectionUpdates ==
    \/ /\ Idle
       /\ \E user \in Creators, body \in UpdatedCreateBodies : CreateReflection(user, body)
    \/ /\ Idle
       /\ \E user \in Creators, id \in ReflParams, body \in UpdateBodies :
             UpdateReflection(user, id, body)
    \/ /\ Idle
       /\ \E p \in Requests : ReflectionWrite(p)
    \/ Deliver

SpecReflectionUpdates == Init /\ [][NextReflectionUpdates]_vars

----------------------------------------------------------------------------
(* All the writing routes together, at one instant and with a storage that  *)
(* does not fail, on the requests that reach every branch of every guard: a *)
(* body or form that cannot be parsed, one that is rejected, one that is     *)
(* accepted, and the ones that carry an owner field.                         *)

CoreCreateBodies == {MalformedBody, [MinimalBody EXCEPT !.authorId = Some("none")]}

CoreUpdateBodies == {MalformedBody, [EmptyBody EXCEPT !.authorId = Some("none")]}

CoreCreateForms ==
    {[PlainForm(1) EXCEPT !.part = "missing"],
     [PlainForm(1) EXCEPT !.uploadedById = Some("none")]}

CoreUpdateForms ==
    {[EmptyForm EXCEPT !.part = "missing"],
     [EmptyForm EXCEPT !.uploadedById = Some("none")]}

Next ==
    \/ /\ Idle
       /\ \E user \in Creators \cup {Anon}, body \in CoreCreateBodies : CreateReflection(user, body)
    \/ /\ Idle
       /\ \E user \in Principals, id \in ReflParams, body \in CoreUpdateBodies :
             UpdateReflection(user, id, body)
    \/ /\ Idle
       /\ \E user \in Principals, id \in ReflParams : DeleteReflection(user, id)
    \/ /\ Idle
       /\ \E user \in Principals, id \in ReflParams : PublishReflection(user, id)
    \/ /\ Idle
       /\ \E p \in Requests : ReflectionWrite(p)
    \/ /\ Idle
       /\ \E user \in Creators \cup {Anon}, form \in CoreCreateForms : CreateAlbum(user, form)
    \/ /\ Idle
       /\ \E t \in tasks : TaskUpload(t, TRUE)
    \/ /\ Idle
       /\ \E t \in tasks : TaskInsert(t)
    \/ /\ Idle
       /\ \E user \in Principals, id \in AlbumParams, form \in CoreUpdateForms :
             UpdateAlbum(user, id, form)
    \/ /\ Idle
       /\ \E user \in Principals, id \in AlbumParams : DeleteAlbum(user, id)
    \/ /\ Idle
       /\ \E user \in Principals, albumId \in AlbumIds, imageId \in ImageParams :
             DeleteImage(user, albumId, imageId)
    \/ /\ Idle
       /\ \E p \in Requests : StorageDelete(p, TRUE)
    \/ /\ Idle
       /\ \E p \in Requests : AlbumWrite(p)
    \/ /\ Idle
       /\ \E p \in Requests : ImageDelete(p)
    \/ /\ Idle
       /\ \E p \in Requests : AlbumRead(p)
    \/ Deliver

Spec == Init /\ [][Next]_vars

----------------------------------------------------------------------------
(* The guarded writes of two users on the resources of one: every user      *)
(* tries the guarded routes, and the updates carry an owner field naming    *)
(* the other user                                                           *)

RaceCreateBodies == {MinimalBody}
RaceUpdateBodies == {[EmptyBody EXCEPT !.authorId = Some("none")]}
RaceUpdateForms == {[EmptyForm EXCEPT !.uploadedById = Some("none")]}

NextInterleaved ==
    \/ /\ Idle
       /\ \E u \in Creators, b \in RaceCreateBodies : CreateReflection(u, b)
    \/ /\ Idle
       /\ \E u \in Creators : CreateAlbum(u, PlainForm(1))
    \/ /\ Idle
       /\ \E t \in tasks : TaskUpload(t, TRUE)
    \/ /\ Idle
       /\ \E t \in tasks : TaskInsert(t)
    \/ /\ Idle
       /\ \E u \in Users, id \in ReflParams, b \in RaceUpdateBodies : UpdateReflection(u, id, b)
    \/ /\ Idle
       /\ \E u \in Users, id \in ReflParams : DeleteReflection(u, id)
    \/ /\ Idle
       /\ \E u \in Users, id \in ReflParams : PublishReflection(u, id)
    \/ /\ Idle
       /\ \E p \in Requests : ReflectionWrite(p)
    \/ /\ Idle
       /\ \E u \in Users, id \in AlbumParams, f \in RaceUpdateForms : UpdateAlbum(u, id, f)
    \/ /\ Idle
       /\ \E u \in Users, id \in AlbumParams : DeleteAlbum(u, id)
    \/ /\ Idle
       /\ \E p \in Requests : StorageDelete(p, TRUE)
    \/ /\ Idle
       /\ \E p \in Requests : AlbumWrite(p)
    \/ Deliver

SpecInterleaved == Init /\ [][NextInterleaved]_vars

----------------------------------------------------------------------------
(* Album updates that list images to delete, over a storage that may fail *)

NextImageDeletes ==
    \/ /\ Idle
       /\ \E user \in Creators, n \in 1..MaxFiles : CreateAlbum(user, PlainForm(n))
    \/ /\ Idle
       /\ \E t \in tasks : TaskUpload(t, TRUE)
    \/ /\ Idle
       /\ \E t \in tasks : TaskInsert(t)
    \/ /\ Idle
       /\ \E user \in Creators, id \in AlbumParams, form \in DeleteListForms :
             UpdateAlbum(user, id, form)
    \/ /\ Idle
       /\ \E p \in Requests, ok \in BOOLEAN : StorageDelete(p, ok)
    \/ /\ Idle
       /\ \E p \in Requests : ImageDeleteMany(p)
    \/ /\ Idle
       /\ \E p \in Requests : AlbumWrite(p)
    \/ Deliver

SpecImageDeletes == Init /\ [][NextImageDeletes]_vars

----------------------------------------------------------------------------
(* createSlug on its own: the calls on every text up to a length *)

MaxSlugLen == 4

\* one character of each kind the expressions of createSlug tell apart: upper
\* and lower case letter, digit, white space, hyphen, underscore, punctuation
SlugAlphabet == {"H", "h", "1", " ", "-", "_", "!"}
HelloWorld == <<"H", "e", "l", "l", "o", " ", "W", "o", "r", "l", "d">>
SlugInputs == UNION {[1..k -> SlugAlphabet] : k \in 0..MaxSlugLen} \cup {HelloWorld}

InitSlug ==
    /\ reflections = <<>>
    /\ reflectionTags = {}
    /\ tags = Tags
    /\ albums = <<>>
    /\ images = <<>>
    /\ storage = {}
    /\ nextId = [refl |-> 1, album |-> 1, image |-> 1]
    /\ now = 1
    /\ resp = NoResponse
    /\ pending = EmptyBag
    /\ tasks = {}
    /\ slugCall \in {[arg |-> t, out |-> None] : t \in SlugInputs}

\* the call returns
Slugify ==
    /\ slugCall.out = None
    /\ slugCall' = [slugCall EXCEPT !.out = Some(createSlug(slugCall.arg))]
    /\ UNCHANGED <<dbVars, storage, nextId, now, resp, pending, tasks>>

NextSlug == Slugify

SpecSlug == InitSlug /\ [][NextSlug]_vars

----------------------------------------------------------------------------
(* Visibility of a single reflection *)

\* the visibility policy of the specification
canView(principal, r) == r.status = "PUBLISHED" \/ principal = r.authorId

\* a handler of the route op has just answered the request of an idle server
Handled(op) == Idle /\ resp'.op = op

\* the request p takes a step: one of its copies leaves its await
TakesStep(p) == Idle /\ CopiesIn(p, pending') < CopiesIn(p, pending)

\* C1: a fetch by id of an existing reflection answers 200 with the reflection
\* exactly when it is PUBLISHED or the caller is its author, and 404 otherwise.
C1_GetImplementsCanView ==
    (resp.op = "getReflection" /\ resp.target \in DOMAIN reflections) =>
        LET r == reflections[resp.target]
        IN  /\ (resp.code = 200) <=> canView(resp.who, r)
            /\ resp.code = 200 => resp.id = resp.target
            /\ ~canView(resp.who, r) => resp.code = 404

\* an authenticated principal that is not the author asked for a draft and got 404
C1_Witness ==
    /\ resp.op = "getReflection"
    /\ resp.target \in DOMAIN reflections
    /\ reflections[resp.target].status = "DRAFT"
    /\ resp.who \in Users
    /\ resp.who # reflections[resp.target].authorId
    /\ resp.code = 404

----------------------------------------------------------------------------
(* Ownership guard of the reflection routes *)

GuardedReflectionRoutes == {"updateReflection", "deleteReflection", "publishReflection"}

\* C2: update, delete and publish of an existing reflection by an authenticated
\* principal other than its author answer 403 and leave the reflection and its
\* tags unchanged; the author is never answered 403.
C2_NonAuthorGets403 ==
    [][\A id \in DOMAIN reflections :
          (Idle /\ resp'.op \in GuardedReflectionRoutes /\ resp'.target = id
                /\ resp'.who \in Users) =>
              IF resp'.who # reflections[id].authorId
              THEN /\ resp'.code = 403
                   /\ UNCHANGED <<reflections, reflectionTags>>
              ELSE resp'.code # 403]_vars

----------------------------------------------------------------------------
(* Ownership guard of the album routes *)

\* C3: update and delete of an existing album by an authenticated principal
\* other than its uploader answer 403 and write nothing to the database nor
\* to the object storage.
C3_NonUploaderGets403 ==
    [][\A id \in DOMAIN albums :
          (Idle /\ resp'.op \in {"updateAlbum", "deleteAlbum"} /\ resp'.target = id
                /\ resp'.who \in Users /\ resp'.who # albums[id].uploadedById) =>
              /\ resp'.code = 403
              /\ UNCHANGED <<dbVars, storage>>]_vars

----------------------------------------------------------------------------
(* Authentication *)

WritingRoutes ==
    {"createReflection", "updateReflection", "deleteReflection", "publishReflection",
     "createAlbum", "updateAlbum", "deleteAlbum", "deleteImage"}

\* C4: every create, update, delete, publish and delete-image request of an
\* anonymous principal answers 401 and leaves the database, the object
\* storage and the id generator as they were.
C4_AnonymousGets401 ==
    [][(Idle /\ resp'.op \in WritingRoutes /\ resp'.who = Anon) =>
          /\ resp'.code = 401
          /\ UNCHANGED <<dbVars, storage, nextId>>]_vars

\* an anonymous principal asked to delete an image that exists, was answered
\* 401, and the image and its object are still there
C4_Witness ==
    /\ resp.op = "deleteImage"
    /\ resp.who = Anon
    /\ resp.code = 401
    /\ resp.target \in DOMAIN images
    /\ images[resp.target].url \in storage

----------------------------------------------------------------------------
(* Listing *)

IsListing == resp.op = "listReflections"

\* C5: in a listing asked by an authenticated caller, every DRAFT reflection
\* of the result is the caller's own, whatever the filters.
C5_ListedDraftsAreOwn ==
    (IsListing /\ resp.who \in Users) =>
        \A r \in resp.items :
            reflections[r].status = "DRAFT" => reflections[r].authorId = resp.who

\* C6: in a listing asked by an anonymous caller, every reflection of the
\* result is PUBLISHED, whatever the status and authorId filters.
C6_AnonymousListsPublishedOnly ==
    (IsListing /\ resp.who = Anon) =>
        \A r \in resp.items : reflections[r].status = "PUBLISHED"

\* an anonymous caller asked for the drafts while a draft exists, and was
\* given a published reflection
C6_Witness ==
    /\ IsListing
    /\ resp.who = Anon
    /\ resp.query[1] = Some("DRAFT")
    /\ resp.items # {}
    /\ \E r \in DOMAIN reflections : reflections[r].status = "DRAFT"

\* C7: a listing with status=DRAFT and authorId=X, asked by an anonymous caller
\* or by an authenticated caller other than X, succeeds with an empty result.
C7_ForeignDraftListingIsEmpty ==
    (/\ IsListing
     /\ resp.query[1] = Some("DRAFT")
     /\ \E x \in Users : resp.query[2] = Some(x) /\ x # resp.who) =>
        /\ resp.code = 200
        /\ resp.items = {}

----------------------------------------------------------------------------
(* Existence of a private draft *)

\* C8: to a principal that may not see it, the answer (status code and body) to
\* the fetch of an existing draft is the answer to the fetch of a missing id.
C8_HiddenDraftLooksMissing ==
    (/\ resp.op = "getReflection"
     /\ resp.target \in DOMAIN reflections
     /\ reflections[resp.target].status = "DRAFT"
     /\ resp.who # reflections[resp.target].authorId) =>
        LET missing == GetReflectionResponse(resp.who, NoId)
        IN  <<resp.code, resp.msg, resp.id>> = <<missing.code, missing.msg, missing.id>>

----------------------------------------------------------------------------
(* Lifecycle *)

\* C9: the publish of a reflection takes the current time when it issues its
\* write; for the author, on a reflection that exists when the write is made,
\* it succeeds whatever the prior status and publishDate, and leaves
\* status = PUBLISHED and publishDate = that time, which is not later than the
\* time of the answer.
C9_PublishStampsNow ==
    [][/\ \A p \in Requests' :
             (/\ Idle /\ p.op = "publishReflection"
              /\ CopiesIn(p, pending') > CopiesIn(p, pending)) => p.date = now
       /\ \A p \in Requests :
             (/\ TakesStep(p) /\ p.op = "publishReflection"
              /\ p.target \in DOMAIN reflections
              /\ p.who = reflections[p.target].authorId) =>
                 /\ resp'.code = 200
                 /\ p.target \in DOMAIN reflections'
                 /\ reflections'[p.target].status = "PUBLISHED"
                 /\ reflections'[p.target].publishDate = Some(p.date)
                 /\ p.date \in 1..now]_vars

\* a publication has answered 200 after the clock moved on from the time it
\* took when it issued its write: the reflection carries that time, the first
\* instant, not the time of the answer
C9_Witness ==
    /\ resp.op = "publishReflection"
    /\ resp.code = 200
    /\ now > 1
    /\ reflections[resp.target].status = "PUBLISHED"
    /\ reflections[resp.target].publishDate = Some(1)

\* C10: a reflection that is PUBLISHED stays PUBLISHED for as long as it exists.
C10_PublishedIsTerminal ==
    [][\A id \in DOMAIN reflections :
          (reflections[id].status = "PUBLISHED" /\ id \in DOMAIN reflections') =>
              reflections'[id].status = "PUBLISHED"]_vars

----------------------------------------------------------------------------
(* Invariants of the tables *)

\* C11: every reflection whose status is PUBLISHED has a publishDate.
C11_PublishedHasDate ==
    \A id \in DOMAIN reflections :
        reflections[id].status = "PUBLISHED" => IsSome(reflections[id].publishDate)

\* C12: the owner of a reflection or album is the principal whose request
\* created it (the caller answered 201, the caller whose handler awaits the
\* uploads), and no later step changes it, whatever the body carries.
C12_OwnerIsImmutable ==
    [][/\ \A id \in DOMAIN reflections' :
             IF id \in DOMAIN reflections
             THEN reflections'[id].authorId = reflections[id].authorId
             ELSE resp'.op = "createReflection" /\ reflections'[id].authorId = resp'.who
       /\ \A id \in DOMAIN albums' :
             IF id \in DOMAIN albums
             THEN albums'[id].uploadedById = albums[id].uploadedById
             ELSE \E w \in tasks' :
                     /\ w.stage = "all" /\ w.album = id
                     /\ albums'[id].uploadedById = w.who]_vars

\* an update whose body names another principal as authorId has succeeded, and
\* the reflection still belongs to the caller
C12_Witness ==
    /\ resp.op = "updateReflection"
    /\ resp.code = 200
    /\ IsSome(resp.body)
    /\ IsSome(resp.body[1].authorId)
    /\ resp.body[1].authorId[1] # resp.who
    /\ reflections[resp.target].authorId = resp.who

\* no two reflections have the same slug
SlugsUnique ==
    \A a, b \in DOMAIN reflections : a # b => reflections[a].slug # reflections[b].slug

\* C13: slugs stay unique; a create without slug whose title derives a slug
\* that is in use, and an update whose slug is in use by another reflection,
\* answer an error and leave the reflections as they were.
C13_SlugsStayUnique ==
    [][/\ SlugsUnique'
       /\ (/\ Handled("createReflection")
           /\ resp'.body[1].json
           /\ IsSome(resp'.body[1].title)
           /\ ~IsSome(resp'.body[1].slug)
           /\ \E r \in DOMAIN reflections :
                 reflections[r].slug = createSlug(resp'.body[1].title[1])) =>
              /\ resp'.code >= 400
              /\ UNCHANGED <<reflections, reflectionTags>>
       /\ (/\ Handled("updateReflection")
           /\ IsSome(resp'.body)
           /\ IsSome(resp'.body[1].slug)
           /\ \E r \in DOMAIN reflections :
                 r # resp'.target /\ reflections[r].slug = resp'.body[1].slug[1]) =>
              /\ resp'.code >= 400
              /\ UNCHANGED <<reflections, reflectionTags>>]_vars

\* an authenticated caller sent a body that is accepted when its slug is free,
\* while a reflection held the slug derived from its title, and was answered
\* 400; that reflection is still the only one with the slug
C13_Witness ==
    /\ resp.op = "createReflection"
    /\ resp.who \in Users
    /\ resp.body = Some(MinimalBody)
    /\ resp.code = 400
    /\ Cardinality({r \in DOMAIN reflections :
                        reflections[r].slug = createSlug(T_Hi)}) = 1

----------------------------------------------------------------------------
(* Creation of a reflection *)

\* C14: a reflection created from a title and a content alone is a DRAFT
\* without publishDate, with the slug derived from the title, owned by the
\* caller; a created reflection is PUBLISHED exactly when the body asks for
\* it, and its publishDate is the one of the body, absent when the body has none.
C14_CreateDefaults ==
    [][Handled("createReflection") =>
          LET b == resp'.body[1]
          IN  /\ (resp'.code = 201) =>
                    LET r == reflections'[resp'.id]
                    IN  /\ resp'.id \notin DOMAIN reflections
                        /\ r.authorId = resp'.who
                        /\ (r.status = "PUBLISHED") <=> (b.status = Some("PUBLISHED"))
                        /\ ~IsSome(b.status) => r.status = "DRAFT"
                        /\ r.publishDate = b.publishDate
                        /\ ~IsSome(b.slug) => r.slug = createSlug(b.title[1])
              /\ (b = MinimalBody /\ resp'.who \in Users
                    /\ ~\E x \in DOMAIN reflections : reflections[x].slug = <<"h", "i">>) =>
                    /\ resp'.code = 201
                    /\ reflections'[resp'.id] =
                          [title |-> T_Hi, content |-> C_x, slug |-> <<"h", "i">>,
                           status |-> "DRAFT", publishDate |-> None,
                           authorId |-> resp'.who, featuredImageId |-> None]]_vars

\* a reflection has been created PUBLISHED from a body without publishDate: it
\* has none
C14_Witness ==
    /\ resp.op = "createReflection"
    /\ resp.code = 201
    /\ resp.body[1].status = Some("PUBLISHED")
    /\ resp.body[1].publishDate = None
    /\ reflections[resp.id].status = "PUBLISHED"
    /\ reflections[resp.id].publishDate = None

----------------------------------------------------------------------------
(* Deletion of a reflection *)

\* C15: the delete of a reflection that exists when the handler answers, DRAFT
\* or PUBLISHED, succeeds for its author and removes the reflection and its tag
\* associations, not the tags; for any other principal it is refused and
\* removes nothing.
C15_DeleteCascadesToTags ==
    [][\A id \in DOMAIN reflections :
          (Handled("deleteReflection") /\ resp'.target = id) =>
              IF resp'.who = reflections[id].authorId
              THEN /\ resp'.code = 200
                   /\ id \notin DOMAIN reflections'
                   /\ \A t \in reflectionTags' : t[1] # id
                   /\ tags' = tags
              ELSE /\ resp'.code \in {401, 403}
                   /\ UNCHANGED <<reflections, reflectionTags, tags>>]_vars

\* a reflection has been deleted: no association names it, while the tag and
\* the association of another reflection with that tag are still there
C15_Witness ==
    /\ resp.op = "deleteReflection"
    /\ resp.code = 200
    /\ resp.target \notin DOMAIN reflections
    /\ \A t \in reflectionTags : t[1] # resp.target
    /\ "t1" \in tags
    /\ \E r \in DOMAIN reflections :
          reflections[r].status = "PUBLISHED" /\ <<r, "t1">> \in reflectionTags

----------------------------------------------------------------------------
(* Agreement of the images table with the object storage *)

\* C16: the url of every Image row designates an object of the storage.
C16_NoDanglingReference ==
    \A i \in DOMAIN images : images[i].url \in storage

\* no request is in progress
Quiet == pending = EmptyBag /\ tasks = {}

\* C17: once every request has run to its end, every object of the storage is
\* the url of an Image row of the album under whose path it is stored.
C17_NoOrphanObject ==
    Quiet =>
        \A o \in storage :
            \E i \in DOMAIN images : images[i].url = o /\ images[i].albumId = o[1]

----------------------------------------------------------------------------
(* Failures of the storage *)

\* the promise of a file leaves its upload with no object stored for the file
UploadFailed(t) ==
    /\ Idle
    /\ t.stage = "upload"
    /\ t \notin tasks'
    /\ ObjectPath(t.album, t.image) \notin storage'

\* C18: when the upload of one of the files of an album creation stores no
\* object, the promise of the file is over without a row, the handler that
\* awaits the promises answers 400 at that step and awaits no longer, and no
\* handler ever awaits the promises of an album again: a 201 is the answer of
\* the handler that awaited the last promise, it comes when the promise of
\* every file has inserted its row, and these rows are there.
C18_FailedUploadFailsCreate ==
    [][/\ \A t \in tasks :
             UploadFailed(t) =>
                 /\ \A u \in tasks' : u.image # t.image /\ ~(u.stage = "all" /\ u.album = t.album)
                 /\ t.image \notin DOMAIN images'
                 /\ WaitersOf(t.album) # {} =>
                        resp'.op = "createAlbum" /\ resp'.code = 400
       /\ \A w \in tasks' :
             w.stage = "all" => (WaitersOf(w.album) # {} \/ w.album = nextId.album)
       /\ (Idle /\ resp'.op = "createAlbum" /\ resp'.code = 201) =>
             /\ \E w \in WaitersOf(resp'.id) :
                    /\ w.left = 1
                    /\ Cardinality({i \in DOMAIN images' : images'[i].albumId = w.album})
                           = w.files
             /\ \A u \in tasks' : u.album # resp'.id]_vars

\* a create has answered 400: the upload of its last file failed while another
\* of its files has its row in the new album
C18_Witness ==
    /\ resp.op = "createAlbum"
    /\ resp.code = 400
    /\ Quiet
    /\ (nextId.album - 1) \in DOMAIN albums
    /\ (nextId.image - 1) \notin DOMAIN images
    /\ ObjectPath(nextId.album - 1, nextId.image - 1) \notin storage
    /\ \E i \in DOMAIN images : images[i].albumId = nextId.album - 1

\* C19: after a delete of an album that answered 200, the album, its Image
\* rows and every object stored under its path are gone, and the rows are
\* deleted only when the answer is 200.
C19_AlbumDeleteRemovesAll ==
    [][\A id \in DOMAIN albums :
          (Handled("deleteAlbum") /\ resp'.target = id) =>
              /\ (resp'.code = 200) =>
                    /\ id \notin DOMAIN albums'
                    /\ \A i \in DOMAIN images' : images'[i].albumId # id
                    /\ \A o \in storage' : o[1] # id
              /\ (resp'.code # 200) => UNCHANGED <<albums, images>>]_vars

\* the album deletion p leaves an await of deleteFile while every object it has
\* still to delete stays in the storage
DeleteFailed(p) ==
    /\ TakesStep(p)
    /\ p.op = "deleteAlbum"
    /\ p.stage = "remove"
    /\ \A u \in p.todo : ObjectPath(p.target, LastSegment(u)) \in storage'

\* C20: when a storage delete of an album deletion fails, the handler answers
\* 400 at that step and is over, and no row is deleted; an album deletion that
\* answers 200 has deleted the object of every image it read.
C20_FailedStorageDeleteIsSurfaced ==
    [][\A p \in Requests :
          /\ DeleteFailed(p) =>
                /\ resp'.op = "deleteAlbum" /\ resp'.code = 400
                /\ pending' = Finish(p)
                /\ UNCHANGED dbVars
          /\ (TakesStep(p) /\ p.op = "deleteAlbum" /\ resp'.code = 200) =>
                \A u \in p.read : ObjectPath(p.target, LastSegment(u)) \notin storage']_vars

\* the uploader's delete has answered 400 after the object of one image was
\* removed and the removal of another failed: the album and both rows are there
C20_Witness ==
    /\ resp.op = "deleteAlbum"
    /\ resp.code = 400
    /\ resp.target \in DOMAIN albums
    /\ resp.who = albums[resp.target].uploadedById
    /\ \E i, j \in DOMAIN images :
          /\ images[i].albumId = resp.target /\ images[i].url \in storage
          /\ images[j].albumId = resp.target /\ images[j].url \notin storage

----------------------------------------------------------------------------
\* C21: single-image deletion is authorized against the uploader of the album
\* the image really belongs to, not the albumId of the path: any other caller
\* gets 403 and the image's row and storage object both remain; for the
\* uploader a successful deletion leaves neither the row nor the storage
\* object, whatever albumId the path carries.
C21_ImageDeleteByParentOwner ==
    [][/\ \A i \in DOMAIN images :
             (/\ Handled("deleteImage") /\ resp'.target = i /\ resp'.who \in Users
              /\ resp'.who # albums[images[i].albumId].uploadedById) =>
                 /\ resp'.code = 403
                 /\ UNCHANGED <<images, storage>>
       /\ \A p \in Requests :
             (TakesStep(p) /\ p.op = "deleteImage" /\ resp'.code = 200) =>
                 /\ p.target \notin DOMAIN images'
                 /\ \A u \in p.read : u \notin storage']_vars

----------------------------------------------------------------------------
\* C22: album creation neither retries nor compensates. The promise of a file
\* is at its upload once, with a fresh id, then at its insert once, after the
\* upload; and when a promise fails and the handler answers 400, the step
\* deletes no album row, no Image row and no object.
C22_NoRetryNoCompensation ==
    [][/\ \A u \in tasks' \ tasks :
             \/ u.stage = "all"
             \/ u.stage = "upload" /\ u.image >= nextId.image
             \/ /\ u.stage = "insert"
                /\ [u EXCEPT !.stage = "upload"] \in tasks
                /\ ObjectPath(u.album, u.image) \in storage'
       /\ (Idle /\ resp'.op = "createAlbum" /\ resp'.code = 400 /\ tasks' # tasks) =>
             /\ albums' = albums
             /\ images' = images
             /\ storage \subseteq storage']_vars

\* A creation of two files answered 400 when its second upload failed: the
\* album row, the first file's object and its Image row are there.
C22_Witness ==
    /\ resp.op = "createAlbum" /\ resp.code = 400
    /\ Quiet
    /\ DOMAIN albums = {1}
    /\ DOMAIN images = {1} /\ images[1].albumId = 1
    /\ storage = {ObjectPath(1, 1)}
    /\ nextId.image = 3

----------------------------------------------------------------------------
\* the guarded routes on reflections, on albums and on images
OwnerGuardedRoutes ==
    {"updateReflection", "deleteReflection", "publishReflection",
     "updateAlbum", "deleteAlbum", "deleteImage"}

\* the resource a guarded request names exists
TargetExists(op, target) ==
    IF op \in GuardedReflectionRoutes THEN target \in DOMAIN reflections
    ELSE IF op = "deleteImage" THEN target \in DOMAIN images
    ELSE target \in DOMAIN albums

\* the owner of an existing resource
TargetOwner(op, target) ==
    IF op \in GuardedReflectionRoutes THEN reflections[target].authorId
    ELSE IF op = "deleteImage" THEN albums[images[target].albumId].uploadedById
    ELSE albums[target].uploadedById

\* C23: every owner-guarded operation decides on existence and ownership before
\* it looks at the request body: an authenticated caller gets 404 for a
\* resource that does not exist and 403 for one it does not own, whatever the
\* body, and 400 is only ever answered to the owner of an existing resource.
C23_AuthorizationBeforeValidation ==
    [][\A op \in OwnerGuardedRoutes :
          (Handled(op) /\ resp'.who \in Users)
          => LET exists == TargetExists(op, resp'.target)
             IN  /\ ~exists => resp'.code = 404
                 /\ (exists /\ resp'.who # TargetOwner(op, resp'.target))
                        => resp'.code = 403
                 /\ resp'.code = 400
                        => (exists /\ resp'.who = TargetOwner(op, resp'.target))]_vars

----------------------------------------------------------------------------
\* C24: whatever runs between the ownership test of a guarded request on a
\* reflection or album and the calls it awaits, a step of that request that
\* changes a table or the bucket, or answers 200, is never the step of a
\* principal other than the owner the resource has at that moment.
C24_WriterIsOwnerAtWrite ==
    [][\A p \in Requests :
          (/\ TakesStep(p)
           /\ p.op \in ReflectionWrites \cup AlbumWrites
           /\ (resp'.code = 200 \/ dbVars' # dbVars \/ storage' # storage))
          => IF p.op \in AlbumWrites
             THEN p.target \in DOMAIN albums => albums[p.target].uploadedById = p.who
             ELSE /\ p.target \in DOMAIN reflections
                  /\ reflections[p.target].authorId = p.who]_vars

\* A write was committed while another request on the same resource, which had
\* passed its ownership test before that write, is still waiting for its own.
C24_Witness ==
    /\ resp.code = 200
    /\ resp.op \in ReflectionWrites \cup AlbumWrites
    /\ \E p \in Requests :
          /\ p.target = resp.target
          /\ (p.op \in AlbumWrites) = (resp.op \in AlbumWrites)
          /\ p.op # resp.op

----------------------------------------------------------------------------
\* C25: once a create-album request has been answered (201 or 400), it uploads
\* no further object and inserts no further Image row: the step of a promise
\* whose handler no longer awaits it leaves the storage and the rows as they are.
C25_NoWriteAfterResponse ==
    [][\A t \in tasks :
          (Idle /\ t.stage # "all" /\ WaitersOf(t.album) = {} /\ t \notin tasks')
          => storage' = storage /\ images' = images]_vars

----------------------------------------------------------------------------
\* C26: an album update with imageIdsToDelete removes images of the updated
\* album only. The row and the storage object of every image of another album
\* stay as they are, listed or not, as do those of the album's images that are
\* not listed; and a listed image of the album loses its row only when its
\* storage object has been deleted.
C26_DeletesOnlyOwnImages ==
    [][\A p \in Requests :
          (TakesStep(p) /\ p.op = "updateAlbum")
          => LET id == p.target
                 listed == p.form[1].toDelete
             IN  /\ \A i \in DOMAIN images :
                       (images[i].albumId # id \/ i \notin listed)
                       => /\ i \in DOMAIN images' /\ images'[i] = images[i]
                          /\ images[i].url \in storage => images[i].url \in storage'
                 /\ \A i \in listed \cap ImagesOf(id) :
                       i \notin DOMAIN images' => images[i].url \notin storage']_vars

\* An update answered 200 whose list named an image of another album, still
\* there with its object, and an image that is gone with its object.
C26_Witness ==
    /\ resp.op = "updateAlbum" /\ resp.code = 200 /\ IsSome(resp.body)
    /\ \E i, j \in resp.body[1].toDelete :
          /\ i \in DOMAIN images /\ images[i].albumId # resp.target
          /\ images[i].url \in storage
          /\ j < nextId.image /\ j \notin DOMAIN images
          /\ ObjectPath(resp.target, j) \notin storage

----------------------------------------------------------------------------
\* C27: an accepted update of a reflection leaves every column whose key is
\* absent from the body as it was (title, content, slug, status, publishDate,
\* featuredImageId; an absent status does not fall back to DRAFT); the tag
\* associations stay as they were when tags is absent and become exactly the
\* supplied set when tags is present.
C27_UpdateTouchesOnlySentKeys ==
    [][(Handled("updateReflection") /\ resp'.code = 200)
       => LET id == resp'.target
              body == resp'.body[1]
              old == reflections[id]
              new == reflections'[id]
              tagsOf(pairs) == {t \in pairs : t[1] = id}
          IN  /\ ~IsSome(body.title) => new.title = old.title
              /\ ~IsSome(body.content) => new.content = old.content
              /\ ~IsSome(body.slug) => new.slug = old.slug
              /\ ~IsSome(body.status) => new.status = old.status
              /\ ~IsSome(body.publishDate) => new.publishDate = old.publishDate
              /\ ~IsSome(body.featuredImageId) => new.featuredImageId = old.featuredImageId
              /\ tagsOf(reflectionTags') =
                    IF IsSome(body.tags)
                    THEN {<<id, body.tags[1][k]>> : k \in DOMAIN body.tags[1]}
                    ELSE tagsOf(reflectionTags)]_vars

\* An accepted update that sent only tags, on a PUBLISHED reflection: it is
\* still PUBLISHED and carries the supplied tag.
C27_Witness ==
    /\ resp.op = "updateReflection" /\ resp.code = 200
    /\ resp.body[1].status = None /\ resp.body[1].tags = Some(<<"t1">>)
    /\ reflections[resp.target].status = "PUBLISHED"
    /\ <<resp.target, "t1">> \in reflectionTags

----------------------------------------------------------------------------
\* the characters a-z, 0-9, "_" and "-"
SlugChars == LowerCase \cup Digits \cup {"_", "-"}

\* only slug characters, no hyphen at either end, no two hyphens in a row
IsNormalSlug(s) ==
    /\ \A i \in DOMAIN s : s[i] \in SlugChars
    /\ s # <<>> => (s[1] # "-" /\ s[Len(s)] # "-")
    /\ \A i \in 1..(Len(s) - 1) : ~(s[i] = "-" /\ s[i + 1] = "-")

\* C28: createSlug is an idempotent normaliser: its result holds only a-z, 0-9,
\* "_" and "-", neither starts nor ends with a hyphen, has no two hyphens in a
\* row, and is mapped to itself by createSlug; createSlug("Hello World") is
\* "hello-world".
C28_SlugIsNormalForm ==
    IsSome(slugCall.out)
    => /\ IsNormalSlug(slugCall.out[1])
       /\ createSlug(slugCall.out[1]) = slugCall.out[1]
       /\ slugCall.arg = HelloWorld
             => slugCall.out[1] = <<"h", "e", "l", "l", "o", "-", "w", "o", "r", "l", "d">>

\* The call on a text with an upper-case letter, white space, punctuation, a
\* run of hyphens and a hyphen at its end has returned.
C28_Witness ==
    /\ slugCall.arg = <<"H", " ", "-", "!">>
    /\ slugCall.out = Some(<<"h">>)
====
